---- MODULE Spec2Model ----
(***************************************************************************)
(* spex.angular.spherical_harmonics.SphericalHarmonics                     *)
(*                                                                         *)
(* One layer object, built by __init__(max_angular), and callers that run  *)
(* forward(R) on it.  The sphericart evaluator (Sph) is an external        *)
(* collaborator: its constructor and its compute() are modelled as the     *)
(* environment of the layer.                                               *)
(***************************************************************************)
EXTENDS Integers, Sequences, FiniteSets, TLC

\* ------------------------------------------------------------------ bounds
MaxAngular == 2
MaxNegative == 2
MaxRows == 2

Callers == {"t1", "t2"}

Angulars == (0 - MaxNegative)..MaxAngular

\* --------------------------------------------------------------- tensors
\* A tensor is described by its shape (a sequence of dimensions), its dtype
\* and its device.  The shapes cover [N,3] for N = 0..MaxRows, a wrong last
\* dimension, a rank-1 and a rank-3 tensor.
ValidShapes == {<<n, 3>> : n \in 0..MaxRows}

BadShapes == {<<5, 2>>, <<3>>, <<1, 1, 3>>}

DTypes == {"float32", "float64", "int64"}

Devices == {"cpu", "mps"}

Inputs ==
    [shape : ValidShapes, dtype : DTypes, device : Devices]
        \cup [shape : BadShapes, dtype : {"float64"}, device : {"cpu"}]

NoInput == [shape |-> <<0, 3>>, dtype |-> "float64", device |-> "cpu"]

ShapeOk(R) == Len(R.shape) = 2 /\ R.shape[2] = 3

\* ------------------------------------------------------- the layer object
\* range(n) of Python, as a sequence: empty when n <= 0.
Range(n) == [i \in 1..n |-> i - 1]

MPerLShort(max_angular) ==
    [i \in 1..max_angular |-> 2 * Range(max_angular)[i] + 1]

MPerLEven(max_angular) ==
    [i \in 1..(max_angular + 1) |-> 2 * Range(max_angular + 1)[i]]

MPerLReversed(max_angular) ==
    [i \in 1..(max_angular + 1) |-> 2 * (max_angular + 1 - i) + 1]

\* self.m_per_l = [2 * l + 1 for l in range(max_angular + 1)]
MPerL(max_angular) ==
    [i \in 1..(max_angular + 1) |-> 2 * Range(max_angular + 1)[i] + 1]

\* the arguments of Sph(l_max=self.max_angular, normalized=True)
SphArgs(max_angular) == [l_max |-> max_angular, normalized |-> TRUE]

SpecOfWithExtraKey(max_angular) ==
    [k \in {"max_angular", "normalized"} |->
        IF k = "max_angular" THEN max_angular ELSE 1]

\* self.spec = {"max_angular": self.max_angular}
SpecOf(max_angular) == [k \in {"max_angular"} |-> max_angular]

\* The object __init__ leaves behind when it runs to its end; id is the
\* identity of the evaluator handle made for it.
NewLayer(max_angular, id) ==
    [max_angular |-> max_angular,
     m_per_l |-> MPerL(max_angular),
     sph |-> [l_max |-> SphArgs(max_angular).l_max,
              normalized |-> SphArgs(max_angular).normalized,
              id |-> id],
     spec |-> SpecOf(max_angular)]

Unbuilt == NewLayer(0, 0)

\* ------------------------------------------------- the external evaluator
\* What the evaluator does with a negative degree is not decided by the
\* layer: it may refuse to construct, construct and fail on compute, or
\* construct and compute no columns.
NegBehaviours == {"reject", "accept_fail", "accept_empty"}

SphConstructs(args, neg) == args.l_max >= 0 \/ neg # "reject"

\* The columns of the evaluator's output:
\* (l=0 m=0) (l=1 m=-1) (l=1 m=0) (l=1 m=+1) (l=2 m=-2) ...
RECURSIVE SphColumns(_)
SphColumns(l_max) ==
    IF l_max < 0 THEN << >>
    ELSE SphColumns(l_max - 1)
            \o [i \in 1..(2 * l_max + 1) |-> <<l_max, i - 1 - l_max>>]

Failure(kind) ==
    [ok |-> FALSE, error |-> kind, rows |-> 0, cols |-> << >>,
     dtype |-> "none", device |-> "none", normalized |-> FALSE,
     grad_of |-> NoInput, tensor |-> 0]

\* sph.compute(R) for a handle and an input, in an environment env:
\* a failure of the evaluator's own, or the tensor it allocates.  The tensor
\* carries its layout, the input it is differentiable with respect to and
\* the identity of its storage.
SphCompute(handle, R, env) ==
    IF ~ShapeOk(R) THEN Failure("SphShapeError")
    ELSE IF R.dtype = "int64" THEN Failure("SphDTypeMismatch")
    ELSE IF R.device = "mps" THEN Failure("SphUnsupportedDevice")
    ELSE IF R.shape[1] > env.capacity THEN Failure("SphOutOfMemory")
    ELSE IF handle.l_max < 0 /\ env.neg = "accept_fail"
        THEN Failure("SphInvalidDegree")
    ELSE [ok |-> TRUE, error |-> "none", rows |-> R.shape[1],
          cols |-> SphColumns(handle.l_max),
          dtype |-> R.dtype, device |-> R.device,
          normalized |-> handle.normalized,
          grad_of |-> R, tensor |-> 1]

\* ---------------------------------------------------------------- forward
\* The evaluate calls one forward(R) issues: self.sph.compute(R), once.
ForwardDelegations(self, R) == << [handle |-> self.sph, xyz |-> R] >>

ForwardResultTranslating(raw) ==
    IF raw.ok THEN raw ELSE Failure("InvalidInput")

ForwardResultDetached(raw) ==
    IF raw.ok THEN [raw EXCEPT !.grad_of = NoInput, !.tensor = 2] ELSE raw

\* return self.sph.compute(R): what the evaluator produced, as it is.
ForwardResult(raw) == raw

SelfAfterForwardTruncating(self) == [self EXCEPT !.m_per_l = << >>]

SelfAfterForwardRebuilding(self) ==
    [self EXCEPT !.sph = [l_max |-> 0, normalized |-> FALSE, id |-> self.sph.id]]

\* forward assigns no attribute of self.
SelfAfterForward(self) == self

\* ------------------------------------------------ consumers of the layout
RECURSIVE SumSeq(_)
SumSeq(s) == IF s = << >> THEN 0 ELSE Head(s) + SumSeq(Tail(s))

\* torch.split(columns, m_per_l): consecutive segments of the given sizes;
\* defined when the sizes add up to the number of columns.
SplitOk(cols, sizes) == SumSeq(sizes) = Len(cols)

RECURSIVE Split(_, _)
Split(cols, sizes) ==
    IF sizes = << >> THEN << >>
    ELSE << SubSeq(cols, 1, Head(sizes)) >>
            \o Split(SubSeq(cols, Head(sizes) + 1, Len(cols)), Tail(sizes))

\* ------------------------------------------------------------------ state
VARIABLES
    env,        \* the evaluator's environment: memory capacity, negative degrees
    ctor,       \* "none", "ok" or the error __init__ raised
    ctorArg,    \* the max_angular given to __init__
    layer,      \* the layer object (meaningful when ctor = "ok")
    built,      \* the layer object as __init__ returned it
    sphMade,    \* number of evaluator handles constructed so far
    clone,      \* the layer rebuilt from layer.spec (meaningful when cloned)
    cloned,
    pc,         \* per caller: "idle", "in_sph", "returned"
    arg,        \* per caller: the input of its forward call
    sphCalls,   \* per caller: the evaluate calls its forward call issued
    raw,        \* per caller: what the evaluator produced
    ret,        \* per caller: what forward returned or raised
    everFailed, \* some forward call on the layer has failed
    afterFailure \* per caller: its call began after a failed call returned

vars == <<env, ctor, ctorArg, layer, built, sphMade, clone, cloned,
          pc, arg, sphCalls, raw, ret, everFailed, afterFailure>>

NoResult == Failure("none")

\* How the evaluator treats a negative degree is first observed when the
\* layer is constructed; Construct fixes env.neg for the rest of the run.
Init ==
    /\ env \in [capacity : {MaxRows - 1, MaxRows}, neg : {"reject"}]
    /\ ctor = "none"
    /\ ctorArg = 0
    /\ layer = Unbuilt
    /\ built = Unbuilt
    /\ sphMade = 0
    /\ clone = Unbuilt
    /\ cloned = FALSE
    /\ pc = [t \in Callers |-> "idle"]
    /\ arg = [t \in Callers |-> NoInput]
    /\ sphCalls = [t \in Callers |-> << >>]
    /\ raw = [t \in Callers |-> NoResult]
    /\ ret = [t \in Callers |-> NoResult]
    /\ everFailed = FALSE
    /\ afterFailure = [t \in Callers |-> FALSE]

\* SphericalHarmonics(max_angular): no check of max_angular; m_per_l is
\* computed, then the evaluator handle is constructed.  If the evaluator's
\* constructor raises, __init__ raises that error and no object is returned.
\* neg is the evaluator's treatment of a negative degree, which only a
\* negative max_angular exercises.
Construct(max_angular, neg) ==
    /\ ctor = "none"
    /\ max_angular >= 0 => neg = "reject"
    /\ env' = [env EXCEPT !.neg = neg]
    /\ ctorArg' = max_angular
    /\ IF SphConstructs(SphArgs(max_angular), neg)
        THEN /\ ctor' = "ok"
             /\ layer' = NewLayer(max_angular, sphMade + 1)
             /\ built' = NewLayer(max_angular, sphMade + 1)
             /\ sphMade' = sphMade + 1
        ELSE /\ ctor' = "SphInvalidDegree"
             /\ UNCHANGED <<layer, built, sphMade>>
    /\ UNCHANGED <<clone, cloned, pc, arg, sphCalls, raw, ret, everFailed,
                   afterFailure>>

\* Rebuilding a layer from the serialized configuration: cls(**spec).
FromSpec ==
    /\ ctor = "ok"
    /\ ~cloned
    /\ DOMAIN layer.spec = {"max_angular"}
    /\ SphConstructs(SphArgs(layer.spec["max_angular"]), env.neg)
    /\ clone' = NewLayer(layer.spec["max_angular"], sphMade + 1)
    /\ sphMade' = sphMade + 1
    /\ cloned' = TRUE
    /\ UNCHANGED <<env, ctor, ctorArg, layer, built, pc, arg, sphCalls,
                   raw, ret, everFailed, afterFailure>>

\* forward(R), first half: the layer hands R to self.sph.compute.
ForwardCall(t, R) ==
    /\ ctor = "ok"
    /\ pc[t] # "in_sph"
    /\ pc' = [pc EXCEPT ![t] = "in_sph"]
    /\ arg' = [arg EXCEPT ![t] = R]
    /\ sphCalls' = [sphCalls EXCEPT ![t] = ForwardDelegations(layer, R)]
    /\ raw' = [raw EXCEPT ![t] = NoResult]
    /\ ret' = [ret EXCEPT ![t] = NoResult]
    /\ afterFailure' = [afterFailure EXCEPT ![t] = everFailed]
    /\ layer' = SelfAfterForward(layer)
    /\ UNCHANGED <<env, ctor, ctorArg, built, sphMade, clone, cloned,
                   everFailed>>

\* forward(R), second half: the evaluator answers the last call issued and
\* forward returns (or raises) that answer.
ForwardReturn(t) ==
    /\ pc[t] = "in_sph"
    /\ LET call == sphCalls[t][Len(sphCalls[t])]
           out == SphCompute(call.handle, call.xyz, env)
       IN /\ raw' = [raw EXCEPT ![t] = out]
          /\ ret' = [ret EXCEPT ![t] = ForwardResult(out)]
          /\ everFailed' = (everFailed \/ ~ForwardResult(out).ok)
    /\ pc' = [pc EXCEPT ![t] = "returned"]
    /\ layer' = SelfAfterForward(layer)
    /\ UNCHANGED <<env, ctor, ctorArg, built, sphMade, clone, cloned,
                   arg, sphCalls, afterFailure>>

Next ==
    \/ \E a \in Angulars, neg \in NegBehaviours : Construct(a, neg)
    \/ FromSpec
    \/ \E t \in Callers, R \in Inputs : ForwardCall(t, R)
    \/ \E t \in Callers : ForwardReturn(t)

Spec == Init /\ [][Next]_vars

\* ----------------------------------------------------------- properties
Returned(t) == pc[t] = "returned"

\* An input the evaluator accepts in environment e: shape [N,3], a floating
\* dtype, a supported device, and a batch that fits in memory.
Evaluable(R, e) ==
    /\ ShapeOk(R)
    /\ R.dtype # "int64"
    /\ R.device # "mps"
    /\ R.shape[1] <= e.capacity

\* C1: for max_angular >= 0 the constructed layer's m_per_l has length
\* max_angular+1 and its entry for degree l is 2*l+1.
C1_MPerLTable ==
    (ctor = "ok" /\ ctorArg >= 0) =>
        /\ layer.max_angular = ctorArg
        /\ Len(layer.m_per_l) = ctorArg + 1
        /\ \A l \in 0..ctorArg : layer.m_per_l[l + 1] = 2 * l + 1

C1_Witness == ctor = "ok" /\ ctorArg >= 2 /\ Len(layer.m_per_l) >= 3

\* C2: constructing with a negative max_angular fails with
\* InvalidConfiguration and produces no layer object.
C2_NegativeRejected ==
    (ctor # "none" /\ ctorArg < 0) => ctor = "InvalidConfiguration"

\* C3: forward on an input that is not rank-2 with last dimension 3 fails
\* with InvalidInput raised by the layer itself.
C3_MalformedRejected ==
    \A t \in Callers :
        (Returned(t) /\ ~ShapeOk(arg[t])) =>
            (~ret[t].ok /\ ret[t].error = "InvalidInput")

\* C4: for max_angular >= 0 and an input of shape [N,3], the output forward
\* returns has shape [N, sum(m_per_l)].
C4_OutputShape ==
    \A t \in Callers :
        (ctorArg >= 0 /\ Returned(t) /\ ShapeOk(arg[t]) /\ ret[t].ok) =>
            <<ret[t].rows, Len(ret[t].cols)>>
                = <<arg[t].shape[1], SumSeq(layer.m_per_l)>>

C4_Witness ==
    \E t \in Callers :
        /\ ctorArg >= 1
        /\ Returned(t) /\ ret[t].ok
        /\ arg[t].shape[1] >= 1
        /\ Len(ret[t].cols) >= 4

\* C5: splitting the output's columns by m_per_l uses up every column and
\* gives max_angular+1 blocks; block l has width 2l+1 and holds the orders
\* m = -l..+l in increasing order, (l,m) at position m+l.
C5_BlockLayout ==
    \A t \in Callers :
        (ctorArg >= 0 /\ Returned(t) /\ ret[t].ok) =>
            /\ SplitOk(ret[t].cols, layer.m_per_l)
            /\ LET blocks == Split(ret[t].cols, layer.m_per_l)
               IN /\ Len(blocks) = layer.max_angular + 1
                  /\ \A l \in 0..layer.max_angular :
                        /\ Len(blocks[l + 1]) = 2 * l + 1
                        /\ \A m \in (0 - l)..l :
                              blocks[l + 1][m + l + 1] = <<l, m>>

C5_Witness ==
    \E t \in Callers :
        /\ ctorArg >= 2
        /\ Returned(t) /\ ret[t].ok
        /\ Len(Split(ret[t].cols, layer.m_per_l)) >= 3

\* C6: no forward call, failing or not, alone or overlapping another, changes
\* max_angular, m_per_l, spec or the evaluator handle: the layer is always
\* as construction left it.
C6_LayerUnchanged ==
    ctor = "ok" =>
        /\ layer = built
        /\ layer.max_angular = ctorArg

C6_Witness ==
    \E t, u \in Callers :
        /\ t # u
        /\ Returned(t) /\ ~ret[t].ok
        /\ pc[u] = "in_sph"
        /\ Len(layer.m_per_l) >= 2

\* C7: the serialized configuration is exactly {max_angular: argument}, and
\* the layer rebuilt from it has the same max_angular, m_per_l and spec.
C7_SpecRoundTrip ==
    ctor = "ok" =>
        /\ DOMAIN layer.spec = {"max_angular"}
        /\ layer.spec["max_angular"] = ctorArg
        /\ cloned =>
            /\ clone.max_angular = layer.max_angular
            /\ clone.m_per_l = layer.m_per_l
            /\ clone.spec = layer.spec

C7_Witness == ctor = "ok" /\ cloned /\ ctorArg >= 1 /\ clone.spec = layer.spec

\* C8: each forward call makes exactly one evaluate call, and an evaluator
\* failure reaches the caller as it is: not retried, not translated, not
\* turned into a normal return.
C8_SingleCallPassThrough ==
    \A t \in Callers :
        /\ pc[t] # "idle" => Len(sphCalls[t]) = 1
        /\ (Returned(t) /\ ~raw[t].ok) => ret[t] = raw[t]
        /\ (Returned(t) /\ ret[t].ok) => raw[t].ok

C8_Witness ==
    \E t, u \in Callers :
        /\ Returned(t) /\ ret[t].error = "SphOutOfMemory"
        /\ Returned(u) /\ ret[u].error = "SphUnsupportedDevice"

\* C9: the evaluator handle is made once, at construction, for degree
\* max_angular with normalized = true; every call uses that handle, and a
\* successful forward returns the very tensor the handle's evaluate gives for
\* the input.
C9_HandleAndResult ==
    ctor = "ok" =>
        /\ layer.sph = [l_max |-> ctorArg, normalized |-> TRUE, id |-> 1]
        /\ sphMade = (IF cloned THEN 2 ELSE 1)
        /\ \A t \in Callers :
            /\ pc[t] # "idle" =>
                \A i \in 1..Len(sphCalls[t]) :
                    sphCalls[t][i] = [handle |-> built.sph, xyz |-> arg[t]]
            /\ (Returned(t) /\ raw[t].ok) =>
                ret[t] = SphCompute(built.sph, arg[t], env)

C9_Witness ==
    \E t \in Callers :
        /\ ctorArg >= 1
        /\ Returned(t) /\ ret[t].ok
        /\ ret[t].grad_of = arg[t]
        /\ ret[t].normalized

\* C10: whatever calls came before, failed ones included, a forward call has
\* the outcome the same call has on a freshly constructed layer with the same
\* max_angular, and it succeeds on an input the evaluator accepts.
C10_HistoryIndependent ==
    \A t \in Callers :
        Returned(t) =>
            /\ ret[t] = SphCompute(NewLayer(ctorArg, 0).sph, arg[t], env)
            /\ (ctorArg >= 0 /\ Evaluable(arg[t], env)) => ret[t].ok

C10_Witness ==
    \E t \in Callers :
        /\ ctorArg >= 1
        /\ afterFailure[t]
        /\ Returned(t) /\ ret[t].ok

====
